---- MODULE Spec2Model ----
(***************************************************************************)
(* DeepLabv3 (model.py) and its training script (train.py).                *)
(*                                                                         *)
(* model.py is modelled at the level of tensor shapes: a tensor is its     *)
(* shape (b, c, h, w) or the exception a layer raised, and every layer is  *)
(* the shape function of the torch layer the source instantiates, with the *)
(* checks that make the layer raise (input channel count, kernel larger    *)
(* than the padded input, batch-norm statistics over a single value,       *)
(* concatenation of unequal sizes).                                        *)
(*                                                                         *)
(* train.py is modelled as the loop of lines 87-126 over an opaque model   *)
(* (its train/eval mode), the two data loaders (a length and an iterator   *)
(* position), the optimizer's learning rate and the loss accumulator.      *)
(* Real numbers are fixed-point: a value v stands for v / SCALE.           *)
(***************************************************************************)
EXTENDS Integers, Sequences, FiniteSets, TLC

\* ------------------------------------------------------------------ bounds
MaxBatch == 2
MaxTrainLen == 3
MaxValLen == 2
MaxLoss == 1
MaxMiou == 1
\* train.py sets N_STEPS = 300000, N_PRINT_STEPS = 100, N_EVAL_STEPS = 1000;
\* the model runs the same loop with small values.
N_STEPS == 4
N_PRINT_STEPS == 2
N_EVAL_STEPS == 2
\* fixed-point unit: v stands for the real number v / SCALE
SCALE == 10000
\* fixed-point rounding allowed when a power is checked against its definition
PowTol == 10

\* input sets of the shape model: model.py runs 224 x 224, train.py sets IMG_SIZE = 513
ImgSizes == {224, 513}
ClassCounts == {2, 21}
OutputStrides == {16, 8}
FeatChannels == {64, 2048}
FeatSizes == {1, 7, 14}
RateTriples == {<<6, 12, 18>>, <<12, 24, 36>>}

\* ------------------------------------------------------------ tensor shapes
T(b, c, h, w) == [ok |-> TRUE, b |-> b, c |-> c, h |-> h, w |-> w, err |-> "none"]
Err(msg) == [ok |-> FALSE, b |-> 0, c |-> 0, h |-> 0, w |-> 0, err |-> msg]
NoTensor == Err("unset")

\* nn.Conv2d output size along one axis (numeric padding)
ConvOut(n, k, s, p, d) == (n + 2 * p - d * (k - 1) - 1) \div s + 1

\* nn.Conv2d(cin, cout, kernel_size=k, stride=s, padding=p, dilation=d)
Conv2d(x, cin, cout, k, s, p, d) ==
    IF ~x.ok THEN x
    ELSE IF x.c # cin THEN Err("RuntimeError: channels")
    ELSE IF x.h + 2 * p < d * (k - 1) + 1 \/ x.w + 2 * p < d * (k - 1) + 1
         THEN Err("RuntimeError: kernel size")
    ELSE T(x.b, cout, ConvOut(x.h, k, s, p, d), ConvOut(x.w, k, s, p, d))

\* nn.Conv2d(cin, cout, ..., padding="same"): stride 1, spatial size kept
Conv2dSame(x, cin, cout) ==
    IF ~x.ok THEN x
    ELSE IF x.c # cin THEN Err("RuntimeError: channels")
    ELSE T(x.b, cout, x.h, x.w)

\* nn.BatchNorm2d(n): in training mode it raises when there is one value per channel
BatchNorm2d(x, n, training) ==
    IF ~x.ok THEN x
    ELSE IF x.c # n THEN Err("RuntimeError: channels")
    ELSE IF training /\ x.b * x.h * x.w = 1 THEN Err("ValueError: batch norm")
    ELSE x

\* nn.MaxPool2d(kernel_size=k, stride=s, padding=p)
MaxPool2d(x, k, s, p) ==
    IF ~x.ok THEN x
    ELSE IF x.h + 2 * p < k \/ x.w + 2 * p < k THEN Err("RuntimeError: kernel size")
    ELSE T(x.b, x.c, ConvOut(x.h, k, s, p, 1), ConvOut(x.w, k, s, p, 1))

\* nn.AdaptiveAvgPool2d(output_size=1)
AdaptiveAvgPool2d(x) == IF ~x.ok THEN x ELSE T(x.b, x.c, 1, 1)

\* F.interpolate(x, size=size): size[1] is the new dim 2, size[2] the new dim 3
Interpolate(x, size) == IF ~x.ok THEN x ELSE T(x.b, x.c, size[1], size[2])

\* residual addition: both paths must have the same shape
Add(x, y) ==
    IF ~x.ok THEN x
    ELSE IF ~y.ok THEN y
    ELSE IF x # y THEN Err("RuntimeError: size")
    ELSE x

\* torch.cat(xs, dim=1) of five tensors
Cat5(xs) ==
    IF \E i \in 1..5 : ~xs[i].ok
    THEN xs[CHOOSE i \in 1..5 : ~xs[i].ok /\ \A j \in 1..(i - 1) : xs[j].ok]
    ELSE IF \E i \in 2..5 : xs[i].b # xs[1].b \/ xs[i].h # xs[1].h \/ xs[i].w # xs[1].w
         THEN Err("RuntimeError: size")
    ELSE T(xs[1].b, xs[1].c + xs[2].c + xs[3].c + xs[4].c + xs[5].c, xs[1].h, xs[1].w)

\* A torchvision ResNet stage of Bottleneck blocks (inplanes -> 4 * planes): the
\* first block carries the stride and the channel change, the others keep the shape.
ResLayer(x, inplanes, planes, stride, dilation, training) ==
    LET c1 == BatchNorm2d(Conv2d(x, inplanes, planes, 1, 1, 0, 1), planes, training)
        c2 == BatchNorm2d(Conv2d(c1, planes, planes, 3, stride, dilation, dilation),
                          planes, training)
        c3 == BatchNorm2d(Conv2d(c2, planes, 4 * planes, 1, 1, 0, 1), 4 * planes, training)
        ds == BatchNorm2d(Conv2d(x, inplanes, 4 * planes, 1, stride, 0, 1),
                          4 * planes, training)
    IN  Add(c3, ds)

\* ------------------------------------------------------------------ model.py
\* ResNet50Backbone.forward
Conv1Pool1(x, training) ==
    ResLayer(MaxPool2d(BatchNorm2d(Conv2d(x, 3, 64, 7, 2, 3, 1), 64, training), 3, 2, 1),
             64, 64, 1, 1, training)
Block1(x, training) == ResLayer(x, 256, 128, 2, 1, training)
Block2(x, training) == ResLayer(x, 512, 256, 2, 1, training)
Block3(x, training) == ResLayer(x, 1024, 512, 2, 1, training)
BackboneForward(x, training) ==
    Block3(Block2(Block1(Conv1Pool1(x, training), training), training), training)

\* DeepLabv3.block4 = deeplabv3_resnet50().backbone.layer4: the dilated layer4
\* (1024 -> 2048 channels, stride 1)
Block4(x, training) == ResLayer(x, 1024, 512, 1, 2, training)

\* ConvBlock.forward (padding="same": kernel size and dilation leave the size alone)
ConvBlock(x, in_channels, kernel_size, dilation, training) ==
    BatchNorm2d(Conv2dSame(x, in_channels, 256), 256, training)

\* ImagePooling.forward: `_, _, w, h = x.shape` binds w to dim 2 and h to dim 3
ImagePoolingSize_swapped(x) == <<x.w, x.h>>
ImagePoolingSize(x) == <<x.h, x.w>>

ImagePoolingForward(x, training) ==
    LET size == ImagePoolingSize(x)
        p == AdaptiveAvgPool2d(x)
        c == Conv2d(p, 64, 256, 1, 1, 0, 1)
        n == BatchNorm2d(c, 256, training)
    IN  Interpolate(n, size)

\* ASPP.forward: the five branches, then their concatenation
ASPPBranches(x, rates, training) ==
    << ConvBlock(x, 64, 1, 1, training), ConvBlock(x, 64, 3, rates[1], training),
       ConvBlock(x, 64, 3, rates[2], training), ConvBlock(x, 64, 3, rates[3], training),
       ImagePoolingForward(x, training) >>
ASPPForward(x, rates, training) ==
    IF ~x.ok THEN x ELSE Cat5(ASPPBranches(x, rates, training))

\* DeepLabv3.__init__: atrous_rates is assigned only when output_stride == 16
NoRates == << >>
InitRates(os) == IF os = 16 THEN <<6, 12, 18>> ELSE NoRates

\* DeepLabv3.forward
FinConv(x, n) == Conv2d(x, 256, n, 1, 1, 0, 1)
DeepLabv3Forward(x, n, rates, training) ==
    FinConv(ConvBlock(ASPPForward(Block4(BackboneForward(x, training), training),
                                  rates, training),
                      1280, 1, 1, training), n)

\* ------------------------------------------------------------------ train.py
\* fixed-point product and power of values in 0..SCALE
FMul(a, b) == (a * b) \div SCALE
RECURSIVE FPow(_, _)
FPow(a, n) == IF n = 0 THEN SCALE ELSE FMul(FPow(a, n - 1), a)

\* the largest r in lo..hi with r^10 <= y (bisection): the tenth root of y
RECURSIVE Root10(_, _, _)
Root10(y, lo, hi) ==
    IF lo >= hi THEN lo
    ELSE LET mid == (lo + hi + 1) \div 2
         IN  IF FPow(mid, 10) <= y THEN Root10(y, mid, hi) ELSE Root10(y, lo, mid - 1)

\* x ** 0.9 for x in [0, 1], as x / x ** 0.1
Pow09(x) == IF x = 0 THEN 0 ELSE (x * SCALE) \div Root10(x, 0, SCALE)

\* get_lr(step, n_steps, power=0.9)
GetLr_linear(step, n_steps) == SCALE - (step * SCALE) \div n_steps
GetLr(step, n_steps) == SCALE - Pow09((step * SCALE) \div n_steps)

\* LR = 0.0007, the lr the optimizer is constructed with
LR_NUM == 7
LR_DEN == 10000
InitialLr == (LR_NUM * SCALE) \div LR_DEN

\* model.train() and model.eval()
TrainCall_skipped(mode) == mode
TrainCall(mode) == "train"
EvalCall(mode) == "eval"

\* next(train_di), with the except StopIteration branch: the iterator is at pos of
\* len batches; the result is the new position, or the StopIteration of the second next
NextBatch_norecover(pos, len) ==
    IF pos < len THEN [ok |-> TRUE, pos |-> pos + 1, fresh |-> FALSE]
    ELSE [ok |-> FALSE, pos |-> pos, fresh |-> FALSE]
NextBatch(pos, len) ==
    IF pos < len THEN [ok |-> TRUE, pos |-> pos + 1, fresh |-> FALSE]
    ELSE IF 0 < len THEN [ok |-> TRUE, pos |-> 1, fresh |-> TRUE]
    ELSE [ok |-> FALSE, pos |-> 0, fresh |-> TRUE]

\* running_loss = 0 after a log line
ResetLoss_kept(r) == r
ResetLoss(r) == 0

\* enumerate(val_dl, start=1): the index bound to `batch` for the batch after pos others
EnumerateIndex_start0(pos) == pos
EnumerateIndex(pos) == pos + 1

RECURSIVE SumSeq(_)
SumSeq(q) == IF q = << >> THEN 0 ELSE q[1] + SumSeq(Tail(q))

VARIABLES
    \* model.py, lines 142-144: a module is constructed and called on x
    m_pc,           \* "new", "constructed", "done" (returned) or "raised"
    under_test,     \* the module constructed: "DeepLabv3" or "ASPP"
    x,              \* the input tensor
    training,       \* nn.Module.training of the module
    output_stride,  \* DeepLabv3.__init__ argument
    n_classes,      \* DeepLabv3.n_classes
    atrous_rates,   \* self.atrous_rates, NoRates while unassigned
    feat,           \* the backbone's output (line 136)
    aspp_in,        \* the tensor passed to ASPP.forward
    branches,       \* x1..x5 of ASPP.forward
    out,            \* the result of the call, or the exception raised
    \* train.py, lines 59-126
    pc,             \* "loop", "evaluate", "evaluating", "done" or "crashed"
    step,           \* the loop variable
    train_len,      \* number of batches train_dl yields
    train_pos,      \* batches train_di has yielded
    val_len,        \* number of batches val_dl yields
    val_pos,        \* batches the loop of evaluate has consumed
    mode,           \* "train" or "eval": model.training
    optim_lr,       \* optim.param_groups[0]["lr"], fixed point
    running_loss,
    sum_miou,
    batch,          \* the enumerate index of evaluate
    batch_bound,    \* whether `batch` is bound
    avg_miou,       \* the value evaluate returned: sum_miou over batch
    err,            \* the exception that ended the script
    \* history of the run
    hist,           \* loss.item() of every completed step
    lr_hist,        \* the rate each step installed
    log,            \* the loss lines printed
    eval_log,       \* the evaluate calls: the step and the updates done before
    mious,          \* the per-batch miou of the latest evaluate call
    n_updates,      \* scaler.step(optim) calls
    n_batches,      \* minibatches obtained
    n_iters,        \* iterators created over train_dl
    last_fwd        \* the latest model(image) call: its context and the mode it ran in

mvars == <<m_pc, under_test, x, training, output_stride, n_classes, atrous_rates,
           feat, aspp_in, branches, out>>
tvars == <<pc, step, train_len, train_pos, val_len, val_pos, mode, optim_lr, running_loss,
           sum_miou, batch, batch_bound, avg_miou, err,
           hist, lr_hist, log, eval_log, mious, n_updates, n_batches, n_iters, last_fwd>>
vars == <<mvars, tvars>>

NoBranches == <<NoTensor, NoTensor, NoTensor, NoTensor, NoTensor>>
NoAvg == [num |-> 0, den |-> 0]

\* ------------------------------------------------------- model.py as a machine
InitModel ==
    /\ m_pc = "new"
    /\ under_test \in {"DeepLabv3", "ASPP"}
    /\ training = TRUE
    /\ feat = NoTensor
    /\ aspp_in = NoTensor
    /\ branches = NoBranches
    /\ out = NoTensor
    /\ \/ /\ under_test = "DeepLabv3"
          /\ \E b \in 1..MaxBatch, h \in ImgSizes, w \in ImgSizes : x = T(b, 3, h, w)
          /\ output_stride \in OutputStrides
          /\ n_classes \in ClassCounts
          /\ atrous_rates = NoRates
       \/ /\ under_test = "ASPP"
          /\ \E b \in 1..MaxBatch, c \in FeatChannels, h \in FeatSizes, w \in FeatSizes :
                x = T(b, c, h, w)
          /\ output_stride = 16
          /\ n_classes = 21
          /\ atrous_rates \in RateTriples

IdleModel ==
    /\ m_pc = "idle"
    /\ under_test = "none"
    /\ x = NoTensor
    /\ training = TRUE
    /\ output_stride = 16
    /\ n_classes = 21
    /\ atrous_rates = NoRates
    /\ feat = NoTensor
    /\ aspp_in = NoTensor
    /\ branches = NoBranches
    /\ out = NoTensor

\* DeepLabv3.__init__(output_stride, n_classes): reading self.atrous_rates raises
\* AttributeError when no branch assigned it
ConstructDeepLabv3 ==
    /\ m_pc = "new"
    /\ under_test = "DeepLabv3"
    /\ atrous_rates' = InitRates(output_stride)
    /\ IF atrous_rates' = NoRates
       THEN m_pc' = "raised" /\ out' = Err("AttributeError: atrous_rates")
       ELSE m_pc' = "constructed" /\ out' = out
    /\ UNCHANGED <<under_test, x, training, output_stride, n_classes, feat, aspp_in,
                   branches, tvars>>

\* ASPP.__init__(atrous_rates)
ConstructASPP ==
    /\ m_pc = "new"
    /\ under_test = "ASPP"
    /\ m_pc' = "constructed"
    /\ UNCHANGED <<under_test, x, training, output_stride, n_classes, atrous_rates,
                   feat, aspp_in, branches, out, tvars>>

\* nn.Module.eval() / nn.Module.train() on the constructed module
ModuleEval ==
    /\ m_pc = "constructed"
    /\ training
    /\ training' = FALSE
    /\ UNCHANGED <<m_pc, under_test, x, output_stride, n_classes, atrous_rates,
                   feat, aspp_in, branches, out, tvars>>

\* deeplabv3(x)
ForwardDeepLabv3 ==
    /\ m_pc = "constructed"
    /\ under_test = "DeepLabv3"
    /\ feat' = BackboneForward(x, training)
    /\ aspp_in' = Block4(feat', training)
    /\ out' = DeepLabv3Forward(x, n_classes, atrous_rates, training)
    /\ m_pc' = IF out'.ok THEN "done" ELSE "raised"
    /\ UNCHANGED <<under_test, x, training, output_stride, n_classes, atrous_rates,
                   branches, tvars>>

\* aspp(x)
ForwardASPP ==
    /\ m_pc = "constructed"
    /\ under_test = "ASPP"
    /\ branches' = ASPPBranches(x, atrous_rates, training)
    /\ out' = ASPPForward(x, atrous_rates, training)
    /\ m_pc' = IF out'.ok THEN "done" ELSE "raised"
    /\ aspp_in' = x
    /\ UNCHANGED <<under_test, x, training, output_stride, n_classes, atrous_rates,
                   feat, tvars>>

NextModel ==
    \/ ConstructDeepLabv3
    \/ ConstructASPP
    \/ ModuleEval
    \/ ForwardDeepLabv3
    \/ ForwardASPP

\* ------------------------------------------------------- train.py as a machine
InitTrain ==
    /\ pc = "loop"
    /\ step = 0
    /\ train_len \in 0..MaxTrainLen
    /\ train_pos = 0
    /\ val_len \in 0..MaxValLen
    /\ val_pos = 0
    /\ mode = "train"
    /\ optim_lr = InitialLr
    /\ running_loss = 0
    /\ sum_miou = 0
    /\ batch = 0
    /\ batch_bound = FALSE
    /\ avg_miou = NoAvg
    /\ err = "none"
    /\ hist = << >>
    /\ lr_hist = << >>
    /\ log = << >>
    /\ eval_log = << >>
    /\ mious = << >>
    /\ n_updates = 0
    /\ n_batches = 0
    /\ n_iters = 1
    /\ last_fwd = [ctx |-> "none", mode |-> "none"]

IdleTrain ==
    /\ pc = "idle"
    /\ step = 0
    /\ train_len = 0
    /\ train_pos = 0
    /\ val_len = 0
    /\ val_pos = 0
    /\ mode = "train"
    /\ optim_lr = InitialLr
    /\ running_loss = 0
    /\ sum_miou = 0
    /\ batch = 0
    /\ batch_bound = FALSE
    /\ avg_miou = NoAvg
    /\ err = "none"
    /\ hist = << >>
    /\ lr_hist = << >>
    /\ log = << >>
    /\ eval_log = << >>
    /\ mious = << >>
    /\ n_updates = 0
    /\ n_batches = 0
    /\ n_iters = 0
    /\ last_fwd = [ctx |-> "none", mode |-> "none"]

\* where the loop goes after the body of step s (lines 121-122 and the range of line 87)
AfterStep(s) ==
    IF s % N_EVAL_STEPS = 0 THEN "evaluate"
    ELSE IF s = N_STEPS THEN "done" ELSE "loop"

\* One iteration of the loop, lines 87-119: model.train(), the minibatch, the learning
\* rate, the forward pass, the update, the loss accumulator and the log line.
TrainStep ==
    /\ pc = "loop"
    /\ step < N_STEPS
    /\ LET s == step + 1
           nb == NextBatch(train_pos, train_len)
           lr == GetLr(s, N_STEPS)
       IN  /\ step' = s
           /\ mode' = TrainCall(mode)
           /\ train_pos' = nb.pos
           /\ n_iters' = IF nb.fresh THEN n_iters + 1 ELSE n_iters
           /\ IF ~nb.ok
              THEN /\ pc' = "crashed"
                   /\ err' = "StopIteration"
                   /\ UNCHANGED <<optim_lr, running_loss, hist, lr_hist, log, n_updates,
                                  n_batches, last_fwd>>
              ELSE /\ n_batches' = n_batches + 1
                   /\ optim_lr' = lr
                   /\ last_fwd' = [ctx |-> "train", mode |-> mode']
                   /\ lr_hist' = Append(lr_hist, lr)
                   /\ n_updates' = n_updates + 1
                   /\ \E loss \in 0..MaxLoss :
                        /\ hist' = Append(hist, loss)
                        /\ IF s % N_PRINT_STEPS = 0
                           THEN /\ log' = Append(log, [step |-> s,
                                                       num |-> running_loss + loss,
                                                       den |-> N_PRINT_STEPS])
                                /\ running_loss' = ResetLoss(running_loss + loss)
                           ELSE /\ log' = log
                                /\ running_loss' = running_loss + loss
                   /\ pc' = AfterStep(s)
                   /\ err' = err
    /\ UNCHANGED <<train_len, val_len, val_pos, sum_miou, batch, batch_bound, avg_miou,
                   eval_log, mious, mvars>>

\* evaluate, lines 28-30: model.eval(), sum_miou = 0, the loop over val_dl starts
EvaluateBegin ==
    /\ pc = "evaluate"
    /\ mode' = EvalCall(mode)
    /\ sum_miou' = 0
    /\ batch' = 0
    /\ batch_bound' = FALSE
    /\ val_pos' = 0
    /\ mious' = << >>
    /\ eval_log' = Append(eval_log, [step |-> step, updates |-> n_updates])
    /\ pc' = "evaluating"
    /\ UNCHANGED <<step, train_len, train_pos, val_len, optim_lr, running_loss, avg_miou,
                   err, hist, lr_hist, log, n_updates, n_batches, n_iters, last_fwd, mvars>>

\* evaluate, lines 31-38: one batch of val_dl
EvaluateBatch ==
    /\ pc = "evaluating"
    /\ val_pos < val_len
    /\ batch' = EnumerateIndex(val_pos)
    /\ batch_bound' = TRUE
    /\ val_pos' = val_pos + 1
    /\ last_fwd' = [ctx |-> "eval", mode |-> mode]
    /\ \E miou \in 0..MaxMiou :
         /\ sum_miou' = sum_miou + miou
         /\ mious' = Append(mious, miou)
    /\ UNCHANGED <<pc, step, train_len, train_pos, val_len, mode, optim_lr, running_loss,
                   avg_miou, err, hist, lr_hist, log, eval_log, n_updates, n_batches,
                   n_iters, mvars>>

\* evaluate, lines 39-40, and the return to the loop: avg_miou = sum_miou / batch
EvaluateEnd ==
    /\ pc = "evaluating"
    /\ val_pos = val_len
    /\ IF ~batch_bound
       THEN pc' = "crashed" /\ err' = "UnboundLocalError" /\ avg_miou' = avg_miou
       ELSE IF batch = 0
       THEN pc' = "crashed" /\ err' = "ZeroDivisionError" /\ avg_miou' = avg_miou
       ELSE /\ avg_miou' = [num |-> sum_miou, den |-> batch]
            /\ pc' = IF step = N_STEPS THEN "done" ELSE "loop"
            /\ err' = err
    /\ UNCHANGED <<step, train_len, train_pos, val_len, val_pos, mode, optim_lr,
                   running_loss, sum_miou, batch, batch_bound, hist, lr_hist, log,
                   eval_log, mious, n_updates, n_batches, n_iters, last_fwd, mvars>>

NextTrain ==
    \/ TrainStep
    \/ EvaluateBegin
    \/ EvaluateBatch
    \/ EvaluateEnd

\* model.py runs on its own (its module body builds the model and calls it);
\* train.py's loop runs over the model it was given
ModelInit == InitModel /\ IdleTrain
TrainInit == InitTrain /\ IdleModel
SpecModel == ModelInit /\ [][NextModel]_vars
SpecTrain == TrainInit /\ [][NextTrain]_vars

\* ------------------------------------------------------------------ properties
ForwardRan == m_pc \in {"done", "raised"} /\ atrous_rates # NoRates
Abs(n) == IF n < 0 THEN -n ELSE n
\* the sum of q[lo..hi]
SumRange(q, lo, hi) == SumSeq(SubSeq(q, lo, hi))
EvaluateReturnedOrRaised == eval_log # << >> /\ pc # "evaluating"

\* C1: for an input (b, 3, 224, 224), DeepLabv3.forward completes and returns a
\* tensor of shape (b, n_classes, 224, 224).
C1_ForwardKeepsImageSize ==
    (under_test = "DeepLabv3" /\ ForwardRan /\ x.h = 224 /\ x.w = 224)
        => out = T(x.b, n_classes, 224, 224)

\* C2: the learning rate of step i of n_steps is 1 - (i / n_steps) ^ 0.9 (its
\* complement p satisfies p^10 = (i / n_steps)^9 up to rounding), it lies in [0, 1),
\* it is strictly smaller than the rate of the step before, and the rate of the last
\* step, with which the final update is applied, is exactly 0.
C2_PolyLr ==
    /\ Len(lr_hist) = n_updates
    /\ n_updates > 0 => optim_lr = lr_hist[n_updates]
    /\ \A i \in 1..Len(lr_hist) :
         /\ lr_hist[i] >= 0
         /\ lr_hist[i] < SCALE
         /\ Abs(FPow(SCALE - lr_hist[i], 10) - FPow((i * SCALE) \div N_STEPS, 9)) <= PowTol
         /\ i > 1 => lr_hist[i] < lr_hist[i - 1]
         /\ i = N_STEPS => lr_hist[i] = 0
C2_Witness == pc = "done" /\ n_updates = N_STEPS /\ optim_lr = 0 /\ lr_hist[1] > 0

\* C3 as stated: for every training loader length, the empty loader included, no
\* StopIteration escapes, every step obtains one minibatch and the loop ends after
\* exactly N_STEPS updates.
C3_Original ==
    /\ err # "StopIteration"
    /\ n_batches = step
    /\ pc = "done" => n_updates = N_STEPS

\* C3 amended: when the training loader yields at least one batch, no StopIteration
\* escapes, every step obtains exactly one minibatch (the next batch of the current
\* iterator or the first batch of a fresh one, created only when the current one is
\* exhausted), every step is one update, the loop ends only after N_STEPS updates, and
\* when the validation loader is not empty either it never stops before it has ended.
C3_Recovers ==
    train_len >= 1 =>
        /\ err # "StopIteration"
        /\ n_batches = step
        /\ n_updates = step
        /\ n_batches = (n_iters - 1) * train_len + train_pos
        /\ step > 0 => train_pos \in 1..train_len
        /\ pc = "done" => n_updates = N_STEPS
        /\ val_len >= 1 => (pc = "done" \/ ENABLED NextTrain)
C3_Witness == pc = "done" /\ train_len >= 2 /\ n_iters > 1 /\ n_updates = N_STEPS

\* C4 as stated: for every validation loader length, the empty loader included,
\* evaluate returns the sum of the per-batch mIoU divided by the number of batches.
C4_Original ==
    EvaluateReturnedOrRaised =>
        /\ err \notin {"UnboundLocalError", "ZeroDivisionError"}
        /\ avg_miou = [num |-> SumSeq(mious), den |-> val_len]

\* C4 amended: when the validation loader yields at least one batch, evaluate returns
\* the sum of the per-batch mIoU of all its batches divided by the number of batches.
C4_MeanOfBatches ==
    (EvaluateReturnedOrRaised /\ val_len >= 1) =>
        /\ err \notin {"UnboundLocalError", "ZeroDivisionError"}
        /\ Len(mious) = val_len
        /\ avg_miou = [num |-> SumSeq(mious), den |-> val_len]
C4_Witness ==
    /\ EvaluateReturnedOrRaised
    /\ val_len >= 2
    /\ pc = "loop"
    /\ avg_miou.num = 1
    /\ avg_miou.den = val_len

\* C5: ASPP.forward returns 256 * 5 = 1280 channels for a feature map of any channel
\* count, with batch size and spatial size unchanged (stated for batches of two or
\* more, on which batch normalisation is defined in either mode).
C5_AsppChannels ==
    (under_test = "ASPP" /\ ForwardRan /\ x.b > 1) => out = T(x.b, 1280, x.h, x.w)

\* C6: constructing DeepLabv3 with output stride 16 or 8 selects the rates (6, 12, 18)
\* or (12, 24, 36), and the feature map fed to ASPP is input_size / output_stride.
C6_RatesByStride ==
    (under_test = "DeepLabv3" /\ m_pc # "new") =>
        /\ output_stride = 16 => atrous_rates = <<6, 12, 18>>
        /\ output_stride = 8 => atrous_rates = <<12, 24, 36>>
        /\ (ForwardRan /\ x.h = 224 /\ x.w = 224) =>
              /\ aspp_in.ok
              /\ aspp_in.h * output_stride = x.h
              /\ aspp_in.w * output_stride = x.w

C8_LrScaledByInitial ==
    (n_updates > 0) =>
        /\ optim_lr = (LR_NUM * GetLr(n_updates, N_STEPS)) \div LR_DEN
        /\ optim_lr * LR_DEN <= LR_NUM * SCALE

\* C9: every log line is written at a multiple of N_PRINT_STEPS and shows the sum of
\* exactly the N_PRINT_STEPS latest losses over N_PRINT_STEPS, the accumulator holds
\* the losses since the last log line, and evaluate runs exactly at the multiples of
\* N_EVAL_STEPS, after that step's update.
C9_LogAndEvalPeriods ==
    /\ Len(log) = Len(hist) \div N_PRINT_STEPS
    /\ \A i \in 1..Len(log) :
         /\ log[i].step = i * N_PRINT_STEPS
         /\ log[i].den = N_PRINT_STEPS
         /\ log[i].num = SumRange(hist, (i - 1) * N_PRINT_STEPS + 1, i * N_PRINT_STEPS)
    /\ running_loss = SumRange(hist, Len(log) * N_PRINT_STEPS + 1, Len(hist))
    /\ Len(eval_log) = (Len(hist) \div N_EVAL_STEPS) - (IF pc = "evaluate" THEN 1 ELSE 0)
    /\ \A j \in 1..Len(eval_log) :
         /\ eval_log[j].step = j * N_EVAL_STEPS
         /\ eval_log[j].updates = j * N_EVAL_STEPS
C9_Witness ==
    /\ Len(log) >= 2
    /\ Len(eval_log) >= 1
    /\ log[1].num > 0
    /\ log[2].num > 0
    /\ running_loss = 0

\* C10: every forward pass of a training step runs in training mode, also right after
\* an evaluation; every forward pass of evaluate runs in evaluation mode; evaluate
\* performs no optimizer step.
C10_ModeOfForward ==
    /\ last_fwd.ctx = "train" => last_fwd.mode = "train"
    /\ last_fwd.ctx = "eval" => last_fwd.mode = "eval"
    /\ n_updates = Len(hist)
    /\ pc = "evaluating" => n_updates = eval_log[Len(eval_log)].updates
C10_Witness ==
    /\ last_fwd.ctx = "train"
    /\ eval_log # << >>
    /\ avg_miou # NoAvg
    /\ step > eval_log[1].step
====
